---- MODULE Spec2Model ----
(***************************************************************************)
(* Candidate vetting and scoring pipeline of saguaro_tom:                  *)
(* candidate_vetting/vet.py, vet_basic.py, vet_bns.py, vet_phot.py and the *)
(* score display tag custom_code/templatetags/event_candidate_extras.py.   *)
(*                                                                         *)
(* Numbers.  A score is a decimal number m * 10^(-e), held as the record   *)
(* [m |-> m, e |-> e] with no trailing zero in m (so equal numbers are     *)
(* equal records).  Pcc values are held in millionths, magnitudes in mag,  *)
(* separations in arcsec, redshifts in thousandths.                        *)
(***************************************************************************)
EXTENDS Integers, Sequences, FiniteSets, Bags, TLC

\* ------------------------------------------------------------------ bounds
MaxRowsPerCatalog == 1      \* rows one catalog query returns at most
MaxLocalizations == 3       \* localizations of one event
MaxDate == 3                \* dates and cutoff times range over 0..MaxDate
MaxPoints == 8              \* points of a light curve given to the fitter
MaxNameLen == 2             \* characters of a filter name
MaxRecords == 2             \* photometry records of a target
MaxEpochs == 5              \* epochs given to the predetection windows
MaxFrameRows == 3           \* rows of the catalog frame that is cleaned
MaxWaitTime == 6            \* max_wait_time of the ZTF query, in seconds
MaxDtWaitTime == 3          \* dt_wait_time of the ZTF query, in seconds
MaxUncertainty == 2         \* distance uncertainties, in Mpc
MaxAge == 14                \* age of the latest ATLAS point, in half days
MaxPosts == 3               \* POSTs of one TNS query that are followed
MaxThrottled == 2           \* throttled submissions of a service that gives in
MaxUnfinished == 2          \* unfinished polls of a task that finishes
MaxRequests == 3            \* pending ZTF request logs
MaxRuns == 2                \* runs of the check for ZTF e-mails

\* ------------------------------------------------------- program constants
\* vet.py:62  PCC_THRESHOLD = 0.15, in millionths
PCC_THRESHOLD == 150000
\* vet.py:365  df.z > 0.02, in thousandths
Z_MIN == 20
\* vet_bns.py:48  PHOT_SCORE_MIN = 0.1
PHOT_SCORE_MIN == [m |-> 1, e |-> 1]
\* vet_bns.py:126  skymap_score < 1e-2
SKYMAP_SCORE_MIN == [m |-> 1, e |-> 2]

\* a missing value of a numeric column (vet.py:366-368 drops such rows)
NaN == -1
None == "None"

\* ------------------------------------------------------ decimal arithmetic
RECURSIVE Pow10(_)
Pow10(n) == IF n = 0 THEN 1 ELSE 10 * Pow10(n - 1)

RECURSIVE DecNorm(_)
DecNorm(d) ==
    IF d.m = 0 THEN [m |-> 0, e |-> 0]
    ELSE IF d.e > 0 /\ d.m % 10 = 0
         THEN DecNorm([m |-> d.m \div 10, e |-> d.e - 1])
         ELSE d

Dec(m, e) == DecNorm([m |-> m, e |-> e])
One == Dec(1, 0)
DecMul(a, b) == DecNorm([m |-> a.m * b.m, e |-> a.e + b.e])
DecLT(a, b) == a.m * Pow10(b.e) < b.m * Pow10(a.e)

\* math.prod over a sequence of decimals
RECURSIVE DecProd(_)
DecProd(s) == IF s = << >> THEN One ELSE DecMul(Head(s), DecProd(Tail(s)))


\* ------------------------------------------------------------- database
\* ScoreFactor and TargetExtra are tables: bags of rows, so that a second row
\* with the same key is a state the model can represent.
Rows(table) == BagToSet(table)

\* QuerySet.filter(...).delete()
DeleteWhere(table, gone) == [r \in Rows(table) \ gone |-> table[r]]

\* One target and the nonlocalized events it is a candidate of: an event
\* candidate is the pair (target, event) and is named by its event.
target_id == "target"
Events == {"S1", "S2"}

ScoreKeys ==
    {"skymap_score", "host_distance_score", "phot_peak_lum", "phot_peak_time",
     "phot_decay_rate", "predetection_score"}

ScoreFactorsOf(table, event_candidate, key) ==
    {r \in Rows(table) : r.event_candidate = event_candidate /\ r.key = key}

\* mutant: create() in place of update_or_create()
Mut_update_score_factor(table, event_candidate, key, value) ==
    table (+) SetToBag({[event_candidate |-> event_candidate, key |-> key,
                         value |-> value]})

\* ScoreFactor.objects.update_or_create(event_candidate, key, defaults={value})
update_score_factor(table, event_candidate, key, value) ==
    LET old == ScoreFactorsOf(table, event_candidate, key)
        row == [event_candidate |-> event_candidate, key |-> key, value |-> value]
    IN  IF old = {}
        THEN table (+) SetToBag({row})
        ELSE DeleteWhere(table, old) (+) SetToBag({row})

\* delete_score_factor(event_candidate, key): the row of that key is removed
delete_score_factor(table, event_candidate, key) ==
    DeleteWhere(table, ScoreFactorsOf(table, event_candidate, key))

TargetExtrasOf(table, target, key) ==
    {r \in Rows(table) : r.target = target /\ r.key = key}

\* save_score_to_targetextra(target, key, value): one row per (target, key)
save_score_to_targetextra(table, target, key, value) ==
    DeleteWhere(table, TargetExtrasOf(table, target, key))
        (+) SetToBag({[target |-> target, key |-> key, value |-> value]})


\* ------------------------------------------------------ host association
\* vet.py:326-336: the catalogs, in query order; one that ships a redshift
\* column and a derived distance (GladePlus) and one without redshift (Gwgc)
catalogs == <<"GladePlus", "Gwgc">>
HasZ(cat) == cat = "GladePlus"

\* a standardized catalog row; sep is the angular separation (arcsec) of the
\* row's (ra, dec) from the target, z is NaN in a catalog without redshifts
Galaxy(cat, name, default_mag, sep, z, lumdist) ==
    [catalog |-> cat, name |-> name, default_mag |-> default_mag, sep |-> sep,
     z |-> z, lumdist |-> lumdist]

\* the rows a query of each catalog can return for the target: a faint
\* galaxy nearby, the same galaxy far out, and one at z = 0.01 in GladePlus;
\* a bright galaxy nearby and one without magnitude in Gwgc
CatalogRows(cat) ==
    IF cat = "GladePlus"
    THEN {Galaxy(cat, "G1", 22, 15, 50, 220),
          Galaxy(cat, "G2", 22, 30, 50, 220),
          Galaxy(cat, "G3", 22, 15, 10, 43)}
    ELSE {Galaxy(cat, "W1", 16, 15, NaN, 40),
          Galaxy(cat, "W3", NaN, 15, NaN, 40)}

QuerySets(cat) ==
    UNION {[1..n -> CatalogRows(cat)] : n \in 0..MaxRowsPerCatalog}

\* vet.py:317-318, tabulated in millionths at the magnitudes and separations
\* of the model:  sigma = (1/(0.33 ln 10)) 10^(0.33 (m - 24) - 2.44),
\*                prob  = 1 - exp(-pi r^2 sigma)
PccTable ==
    (15 :> (15 :> 3613  @@ 16 :> 7708  @@ 22 :> 522375 @@ 30 :> 1000000)) @@
    (16 :> (15 :> 4109  @@ 16 :> 8765  @@ 22 :> 568608 @@ 30 :> 1000000)) @@
    (22 :> (15 :> 7755  @@ 16 :> 16507 @@ 22 :> 795976 @@ 30 :> 1000000)) @@
    (30 :> (15 :> 14372 @@ 16 :> 30476 @@ 22 :> 947959 @@ 30 :> 1000000))

pcc(r, m) == PccTable[r][m]

\* vet.py:361-372: the z cut, dropna and the catalog tag of one catalog's rows
Cleaned(cat, frame) ==
    SelectSeq(frame, LAMBDA row :
        /\ (HasZ(cat) => row.z > Z_MIN)
        /\ row.default_mag # NaN
        /\ row.lumdist # NaN)

\* vet.py:343-372: res, the cleaned dataframes of the catalogs that returned rows
RECURSIVE QueryCatalogs(_, _)
QueryCatalogs(query_sets, i) ==
    IF i > Len(catalogs) THEN << >>
    ELSE IF Len(query_sets[catalogs[i]]) = 0
         THEN QueryCatalogs(query_sets, i + 1)
         ELSE <<Cleaned(catalogs[i], query_sets[catalogs[i]])>>
                  \o QueryCatalogs(query_sets, i + 1)

\* pd.concat(res).reset_index(drop=True)
RECURSIVE Concat(_)
Concat(res) == IF res = << >> THEN << >> ELSE Head(res) \o Concat(Tail(res))

\* vet.py:377-380: the offset and pcc columns
WithPcc(frame) ==
    [i \in DOMAIN frame |->
        [name |-> frame[i].name, catalog |-> frame[i].catalog,
         default_mag |-> frame[i].default_mag, z |-> frame[i].z,
         lumdist |-> frame[i].lumdist,
         offset |-> frame[i].sep,
         pcc |-> pcc(frame[i].default_mag, frame[i].sep)]]

\* df[df.pcc <= pcc_threshold]
PccCut(frame, pcc_threshold) == SelectSeq(frame, LAMBDA row : row.pcc <= pcc_threshold)

\* sort_values("pcc", ascending=True)
RECURSIVE Insert(_, _)
Insert(row, sorted) ==
    IF sorted = << >> THEN <<row>>
    ELSE IF row.pcc < Head(sorted).pcc THEN <<row>> \o sorted
         ELSE <<Head(sorted)>> \o Insert(row, Tail(sorted))

\* mutant: sorted "inversely", largest pcc first
RECURSIVE Mut_sort_values(_)
Mut_sort_values(frame) ==
    IF frame = << >> THEN << >>
    ELSE LET rest == Mut_sort_values(SubSeq(frame, 1, Len(frame) - 1))
             row == frame[Len(frame)]
             before == SelectSeq(rest, LAMBDA x : x.pcc >= row.pcc)
             after == SelectSeq(rest, LAMBDA x : x.pcc < row.pcc)
         IN  before \o <<row>> \o after

RECURSIVE sort_values(_)
sort_values(frame) ==
    IF frame = << >> THEN << >>
    ELSE Insert(frame[Len(frame)], sort_values(SubSeq(frame, 1, Len(frame) - 1)))

\* vet.py:374-386: the dataframe host_association returns
RankedHosts(res) == sort_values(PccCut(WithPcc(Concat(res)), PCC_THRESHOLD))

\* vet.py:166-204: the renamed columns of the stored records
HostRecords(frame) ==
    [i \in DOMAIN frame |->
        [ID |-> frame[i].name, PCC |-> frame[i].pcc, Offset |-> frame[i].offset,
         Dist |-> frame[i].lumdist, z |-> frame[i].z, Mags |-> frame[i].default_mag,
         Source |-> frame[i].catalog]]

\* mutant: the stored entry is not deleted before the new one is written
Mut_save_host_galaxy_df(table, hosts, target) ==
    LET row == [target |-> target, key |-> "Host Galaxies", value |-> HostRecords(hosts)]
    IN  IF row \in Rows(table) THEN table ELSE table (+) SetToBag({row})

\* vet.py:163-164: the stored entries of the target are deleted
DeleteHostGalaxies(table, target) ==
    DeleteWhere(table, TargetExtrasOf(table, target, "Host Galaxies"))

\* vet.py:204-208: update_or_create looks the row up by target, key and value
\* (no defaults are given) and creates it when there is none
WriteHostGalaxies(table, hosts, target) ==
    LET row == [target |-> target, key |-> "Host Galaxies", value |-> HostRecords(hosts)]
    IN  IF row \in Rows(table) THEN table ELSE table (+) SetToBag({row})

\* vet.py:160-209
_save_host_galaxy_df(table, hosts, target) ==
    WriteHostGalaxies(DeleteHostGalaxies(table, target), hosts, target)


\* mutant: the list is saved even when it is empty
Mut_SaveHosts(table, ret_df, target) == _save_host_galaxy_df(table, ret_df, target)

\* vet.py:392-398: an empty list is returned without being saved
SaveHosts(table, ret_df, target) ==
    IF Len(ret_df) = 0 THEN table
    ELSE _save_host_galaxy_df(table, ret_df, target)

\* ------------------------------------------------------------ the state
VARIABLES
    scoreFactors,   \* the ScoreFactor table
    targetExtras,   \* the TargetExtra table
    photometry,     \* the target's ReducedDatum photometry: none, limits, detections
    pc,             \* the stage the running vetting call is about to execute
    mode,           \* the entry point of the running call: vet_bns or vet_basic
    event,          \* nonlocalized_event_name of the running vet_bns call
    skymap_score,   \* vet_bns local
    df,             \* host_association local: the cleaned rows with their pcc
    host_df,        \* the dataframe host_association returned
    hosts_before,   \* the "Host Galaxies" rows stored when the call started
    exc,            \* the exception that ended the call, None otherwise
    stages,         \* the stages the call has executed, in order
    written         \* per event candidate, the factor values vet_bns runs wrote
                    \* and have not deleted since, each marked with whether
                    \* the latest run of that candidate wrote it
VARIABLES
    all_localizations,  \* the EventLocalization rows of an event, in table order
    max_time,           \* the cutoff time given to _localization_from_name
    localization        \* the localization it returned

VARIABLES
    lightcurve,     \* what the target's photometry looks like once it has any:
                    \* the points of the light curve and how the fits end on it
    args,           \* the arguments of the function call under study
    result          \* what the call returned or raised, None before the call

locVars == <<all_localizations, max_time, localization>>
callVars == <<locVars, lightcurve, args, result>>

vars ==
    <<scoreFactors, targetExtras, photometry, pc, mode, event, skymap_score,
      df, host_df, hosts_before, exc, stages, written, callVars>>

\* no localization selected yet (localization ids start at 1)
NoLocalization == [id |-> 0, date |-> 0]

\* the values skymap_association can return: one below 1e-2 and 1e-2 itself
SkymapScores == {Dec(5, 3), Dec(1, 2)}
\* the values of dist_norm_joint_prob host_distance_match can attach to a host
JointProbs == {Dec(5, 1), One}

\* A light curve as the fitter sees it: n detections in the chosen filters
\* after the event, how scipy's curve_fit ends for each model on them
\* ("converged" or the RuntimeError of a fit that does not converge), whether
\* the single power law has the lower AIC, and pre, the number of epochs
\* before the event.
LightCurve(n, pl, bpl, pl_better, pre) ==
    [n |-> n, pl |-> pl, bpl |-> bpl, pl_better |-> pl_better, pre |-> pre]

FitOutcomes == {"converged", "RuntimeError"}

\* seven detections that both models fit, and no epoch before the event
FittedLightCurve == LightCurve(7, "converged", "converged", TRUE, 0)

\* no function call under study
NoResult == [called |-> FALSE]
NoCall == args = None /\ result = NoResult

\* an empty database and no vetting call running
PipelineInit ==
    /\ scoreFactors = EmptyBag
    /\ targetExtras = EmptyBag
    /\ photometry = "none"
    /\ pc = "idle"
    /\ mode = None
    /\ event = None
    /\ skymap_score = One
    /\ df = << >>
    /\ host_df = << >>
    /\ hosts_before = {}
    /\ exc = None
    /\ stages = << >>
    /\ written = [ev \in Events |-> {}]

NoLocalizations ==
    /\ all_localizations = << >>
    /\ max_time = 0
    /\ localization = NoLocalization

Init ==
    /\ PipelineInit
    /\ NoLocalizations
    /\ lightcurve = FittedLightCurve
    /\ NoCall

NotRunning == pc \in {"idle", "done", "raised"}

\* the factor writes of a vet_bns run, with the record of what was written
Forget(factors, keys) == {f \in factors : f.key \notin keys}

Update(key, value) ==
    /\ scoreFactors' = update_score_factor(scoreFactors, event, key, value)
    /\ written' = [written EXCEPT ![event] =
                      Forget(@, {key})
                          \cup {[key |-> key, value |-> value, latest |-> TRUE]}]

\* mutant: an existing factor is left in place
Mut_Delete(key) == UNCHANGED <<scoreFactors, written>>

\* vet_bns.py:150, 195
Delete(key) ==
    /\ scoreFactors' = delete_score_factor(scoreFactors, event, key)
    /\ written' = [written EXCEPT ![event] = Forget(@, {key})]

Raise(exception) ==
    /\ pc' = "raised"
    /\ exc' = exception

\* photometry is ingested or removed by the rest of the application
PhotometryChange ==
    /\ UNCHANGED <<df, hosts_before, callVars>>
    /\ NotRunning
    /\ \E p \in {"none", "limits", "detections"} :
          /\ p # photometry
          /\ photometry' = p
    /\ UNCHANGED <<scoreFactors, targetExtras, pc, mode, event, skymap_score,
                   host_df, exc, stages, written>>

\* vet_bns.py:111-121
StartVetBns ==
    /\ UNCHANGED callVars
    /\ df' = << >>
    /\ hosts_before' = TargetExtrasOf(targetExtras, target_id, "Host Galaxies")
    /\ NotRunning
    /\ \E ev \in Events :
          /\ event' = ev
          /\ written' = [written EXCEPT ![ev] =
                            {[f EXCEPT !.latest = FALSE] : f \in @}]
    /\ pc' = "skymap_check"
    /\ mode' = "vet_bns"
    /\ skymap_score' = One
    /\ host_df' = << >>
    /\ exc' = None
    /\ stages' = << >>
    /\ UNCHANGED <<scoreFactors, targetExtras, photometry>>

\* vet_basic called on its own (hooks.py:121, views.py:81)
StartVetBasic ==
    /\ UNCHANGED callVars
    /\ df' = << >>
    /\ hosts_before' = TargetExtrasOf(targetExtras, target_id, "Host Galaxies")
    /\ NotRunning
    /\ pc' = "find_public_phot"
    /\ mode' = "vet_basic"
    /\ event' = None
    /\ skymap_score' = One
    /\ host_df' = << >>
    /\ exc' = None
    /\ stages' = << >>
    /\ UNCHANGED <<scoreFactors, targetExtras, photometry, written>>

\* mutant: the early return is missing
Mut_AfterSkymapCheck(score) == "find_public_phot"

\* vet_bns.py:126-127: where the run goes after the skymap factor is written
AfterSkymapCheck(score) ==
    IF DecLT(score, SKYMAP_SCORE_MIN) THEN "done" ELSE "find_public_phot"

\* vet_bns.py:123-127
SkymapCheck ==
    /\ UNCHANGED <<df, hosts_before, callVars>>
    /\ pc = "skymap_check"
    /\ \E score \in SkymapScores :
          /\ skymap_score' = score
          /\ Update("skymap_score", score)
          /\ pc' = AfterSkymapCheck(score)
    /\ stages' = Append(stages, "skymap_check")
    /\ UNCHANGED <<targetExtras, photometry, mode, event, host_df, exc>>

\* vet_phot.py:405: how long the query is willing to wait for the TNS, in seconds
tns_timelimit == 10

\* What requests.post gives for one POST to the TNS: a ConnectionError or
\* Timeout raised by requests, or a response with its status code, its
\* x-rate-limit-remaining header ('Exceeded' or a number, -99 when absent),
\* its x-rate-limit-reset header and its body.
TnsReply(error, status_code, exceeded, remaining, time_to_reset, body) ==
    [error |-> error, status_code |-> status_code, exceeded |-> exceeded,
     remaining |-> remaining, time_to_reset |-> time_to_reset, body |-> body]

TnsBodies == {"not json", "no photometry", "photometry"}

ConnectionFailure == TnsReply(TRUE, 0, FALSE, 0, 0, "not json")
ShortThrottle == TnsReply(FALSE, 200, FALSE, 0, 5, "no photometry")

TnsReplies ==
    {ConnectionFailure, ShortThrottle,
     TnsReply(FALSE, 500, FALSE, -99, -99, "not json"),
     TnsReply(FALSE, 200, TRUE, 0, 60, "no photometry"),
     TnsReply(FALSE, 200, FALSE, 0, 60, "no photometry")}
    \cup {TnsReply(FALSE, 200, FALSE, -99, -99, body) : body \in TnsBodies}
    \cup {TnsReply(FALSE, 200, FALSE, 5, 30, body) : body \in TnsBodies}

\* the replies to the successive POSTs of one query: the loop of _post_to_tns
\* posts again only after a reply that made it sleep
TnsReplySeqs ==
    {<<r>> : r \in TnsReplies \ {ShortThrottle}}
    \cup {<<ShortThrottle, r>> : r \in TnsReplies \ {ShortThrottle}}

PostRaised(exception) == [raised |-> exception]
PostReturned(response_is_none, response) ==
    [raised |-> None, response_is_none |-> response_is_none, response |-> response]

\* phot_catalogs.py:154-192
RECURSIVE _post_to_tns(_, _)
_post_to_tns(replies, timelimit) ==
    LET response == Head(replies)
    IN  IF response.error
        THEN \* requests.post at line 160 raises; nothing around it catches
             PostRaised("ConnectionError")
        ELSE IF response.status_code # 200 THEN PostReturned(FALSE, response)
        ELSE IF response.exceeded THEN PostReturned(TRUE, response)
        ELSE IF response.remaining < 0 \/ response.time_to_reset < 0
        THEN PostReturned(FALSE, response)
        ELSE IF response.remaining = 0 /\ response.time_to_reset < timelimit
        THEN _post_to_tns(Tail(replies), timelimit)
        ELSE IF response.remaining = 0 /\ response.time_to_reset > timelimit
        THEN PostReturned(TRUE, response)
        ELSE PostReturned(FALSE, response)

QueryRaised(exception) == [raised |-> exception]
QueryReturned(added) == [raised |-> None, added |-> added]

\* phot_catalogs.py:47-114; _add_phot (116-152) returns whether it stored a point
TNS_Phot_query(replies, timelimit) ==
    LET post == _post_to_tns(replies, timelimit)
    IN  IF post.raised # None THEN QueryRaised(post.raised)
        ELSE IF post.response_is_none \/ post.response.status_code # 200
        THEN QueryReturned(FALSE)
        ELSE IF post.response.body = "not json" THEN QueryReturned(FALSE)
        ELSE QueryReturned(post.response.body = "photometry")

\* vet_basic.py:36-43 and vet_phot.py:404-405: the TNS query may add
\* detections to the target; what it raises leaves find_public_phot and
\* vet_basic, neither of which has a handler
FindPublicPhot ==
    /\ UNCHANGED <<df, hosts_before, callVars>>
    /\ pc = "find_public_phot"
    /\ \E replies \in TnsReplySeqs :
          LET found == TNS_Phot_query(replies, tns_timelimit)
          IN  IF found.raised # None
              THEN /\ Raise(found.raised)
                   /\ UNCHANGED photometry
              ELSE /\ photometry' = IF found.added THEN "detections" ELSE photometry
                   /\ pc' = "point_source_check"
                   /\ UNCHANGED exc
    /\ stages' = Append(stages, "find_public_phot")
    /\ UNCHANGED <<scoreFactors, targetExtras, mode, event, skymap_score,
                   host_df, written>>

\* vet.py:462-490: 0 when a point-source catalog has a match, 1 otherwise
point_source_association(matched) == IF matched THEN 0 ELSE 1

\* vet_basic.py:47-53: the minor-planet check follows whatever ps_score is stored
AfterPointSourceCheck(ps_scores) == "minor_planet_check"

\* vet_basic.py:45-50
PointSourceCheck ==
    /\ UNCHANGED <<df, hosts_before, callVars>>
    /\ pc = "point_source_check"
    /\ IF TargetExtrasOf(targetExtras, target_id, "ps_score") = {}
       THEN \E matched \in BOOLEAN :
               targetExtras' = save_score_to_targetextra(
                   targetExtras, target_id, "ps_score",
                   point_source_association(matched))
       ELSE UNCHANGED targetExtras
    /\ pc' = AfterPointSourceCheck(
                {r.value : r \in TargetExtrasOf(targetExtras', target_id, "ps_score")})
    /\ stages' = Append(stages, "point_source_check")
    /\ UNCHANGED <<scoreFactors, photometry, mode, event, skymap_score,
                   host_df, exc, written>>

\* vet_basic.py:52-82; line 65 uses a logger the module never defines
MinorPlanetCheck ==
    /\ UNCHANGED <<df, hosts_before, callVars>>
    /\ pc = "minor_planet_check"
    /\ stages' = Append(stages, "minor_planet_check")
    /\ IF TargetExtrasOf(targetExtras, target_id, "mpc_match_name") # {}
       THEN /\ pc' = "host_association"
            /\ UNCHANGED <<targetExtras, exc>>
       ELSE IF photometry = "detections"
       THEN /\ pc' = "host_association"
            /\ \E mpc_match \in {None, "2004 MN4"} :
                  targetExtras' =
                     IF mpc_match # None
                     THEN save_score_to_targetextra(
                            save_score_to_targetextra(
                              save_score_to_targetextra(
                                targetExtras, target_id, "mpc_match_name", mpc_match),
                              target_id, "mpc_match_sep", 1),
                            target_id, "mpc_match_date", 1)
                     ELSE save_score_to_targetextra(
                            targetExtras, target_id, "mpc_match_name", None)
            /\ UNCHANGED exc
       ELSE /\ Raise("NameError")
            /\ UNCHANGED targetExtras
    /\ UNCHANGED <<scoreFactors, photometry, mode, event, skymap_score,
                   host_df, written>>

\* vet_basic.py:84-90 and vet.py:322-398
HostAssociation ==
    /\ UNCHANGED <<hosts_before, callVars>>
    /\ pc = "host_association"
    /\ stages' = Append(stages, "host_association")
    /\ \E glade \in QuerySets("GladePlus"), gwgc \in QuerySets("Gwgc") :
          LET query_sets == ("GladePlus" :> glade) @@ ("Gwgc" :> gwgc)
              res == QueryCatalogs(query_sets, 1)
              ret_df == RankedHosts(res)
          IN  IF res = << >>
              THEN \* pd.concat of an empty list raises
                   /\ Raise("ValueError")
                   /\ UNCHANGED <<targetExtras, df, host_df>>
              ELSE /\ df' = WithPcc(Concat(res))
                   /\ host_df' = ret_df
                   /\ targetExtras' = SaveHosts(targetExtras, ret_df, target_id)
                   /\ pc' = IF mode = "vet_basic" THEN "done"
                            ELSE "host_distance_scoring"
                   /\ UNCHANGED exc
    /\ UNCHANGED <<scoreFactors, photometry, mode, event, skymap_score, written>>


DecMax(a, b) == IF DecLT(a, b) THEN b ELSE a

\* get_distance_score: the largest dist_norm_joint_prob of the ten best hosts
RECURSIVE get_distance_score(_)
get_distance_score(joint_probs) ==
    IF Len(joint_probs) = 1 THEN joint_probs[1]
    ELSE DecMax(Head(joint_probs), get_distance_score(Tail(joint_probs)))

\* vet_bns.py:132-150; host_distance_match attaches to each host row the
\* overlap of its distance distribution with the event's
HostDistanceScoring ==
    /\ UNCHANGED <<df, hosts_before, callVars>>
    /\ pc = "host_distance_scoring"
    /\ stages' = Append(stages, "host_distance_scoring")
    /\ IF Len(host_df) # 0
       THEN \E dist_norm_joint_prob \in [DOMAIN host_df -> JointProbs] :
               Update("host_distance_score",
                      get_distance_score(
                          SubSeq(dist_norm_joint_prob, 1,
                                 IF Len(host_df) < 10 THEN Len(host_df) ELSE 10)))
       ELSE Delete("host_distance_score")
    /\ pc' = "photometry_scoring"
    /\ UNCHANGED <<targetExtras, photometry, mode, event, skymap_score,
                   host_df, exc>>

\* vet_bns.py:152-175.  _get_post_disc_phot (vet_phot.py:122-126) returns None
\* when the target has no photometry; otherwise it evaluates the chained
\* comparison t_post >= photdf.dt >= 0 on a pandas Series, which raises
\* ValueError (the truth value of a Series is ambiguous).
PhotometryScoring ==
    /\ UNCHANGED <<df, hosts_before, callVars>>
    /\ pc = "photometry_scoring"
    /\ stages' = Append(stages, "photometry_scoring")
    /\ IF photometry # "none"
       THEN /\ Raise("ValueError")
            /\ UNCHANGED <<scoreFactors, written>>
       ELSE \* _score_phot(None, ...) = (1, None, None, None, None, None)
            /\ scoreFactors' =
                  delete_score_factor(
                    delete_score_factor(
                      delete_score_factor(scoreFactors, event, "phot_peak_lum"),
                      event, "phot_peak_time"),
                    event, "phot_decay_rate")
            /\ written' = [written EXCEPT ![event] =
                  Forget(@, {"phot_peak_lum", "phot_peak_time", "phot_decay_rate"})]
            /\ pc' = "predetection_check"
            /\ UNCHANGED exc
    /\ UNCHANGED <<targetExtras, photometry, mode, event, skymap_score, host_df>>

\* vet_bns.py:185: the half-width of the predetection window, in epochs
predet_window_size == 5

\* vet_phot.py:369-379 as called at vet_bns.py:182-189: with at most
\* 2*window_size epochs the list of windows is empty, tuple(zip(*[])) is (),
\* and unpacking it into two names raises the ValueError that vet_bns turns
\* into n_predets = [0]; with more epochs some window may hold max_predets
\* detections or none may.
TooManyPredets(n_epochs) ==
    IF n_epochs <= 2 * predet_window_size THEN {FALSE} ELSE BOOLEAN

\* vet_bns.py:177-195.  _get_pre_disc_phot (vet_phot.py:132-136) returns None
\* when the target has no photometry, else the rows before the event.
PredetectionCheck ==
    /\ UNCHANGED <<df, hosts_before, callVars>>
    /\ pc = "predetection_check"
    /\ stages' = Append(stages, "predetection_check")
    /\ IF photometry = "none" \/ lightcurve.pre = 0
       THEN UNCHANGED <<scoreFactors, written>>
       ELSE \E too_many_predets \in TooManyPredets(lightcurve.pre) :
               IF too_many_predets
               THEN Update("predetection_score", PHOT_SCORE_MIN)
               ELSE Delete("predetection_score")
    /\ pc' = "done"
    /\ UNCHANGED <<targetExtras, photometry, mode, event, skymap_score,
                   host_df, exc>>

Next ==
    \/ PhotometryChange
    \/ StartVetBns
    \/ StartVetBasic
    \/ SkymapCheck
    \/ FindPublicPhot
    \/ PointSourceCheck
    \/ MinorPlanetCheck
    \/ HostAssociation
    \/ HostDistanceScoring
    \/ PhotometryScoring
    \/ PredetectionCheck

Spec == Init /\ [][Next]_vars

\* the same runs on targets whose photometry, when they have any, is a light
\* curve neither model fits, or has epochs before the event
UnfittedLightCurve == LightCurve(7, "RuntimeError", "RuntimeError", TRUE, 0)
FewPredetections == LightCurve(7, "converged", "converged", TRUE, 3)
ManyPredetections == LightCurve(7, "converged", "converged", TRUE, 11)

InitPhot ==
    /\ PipelineInit
    /\ NoLocalizations
    /\ lightcurve \in {FittedLightCurve, UnfittedLightCurve, FewPredetections,
                       ManyPredetections}
    /\ NoCall

SpecPhot == InitPhot /\ [][Next]_vars


\* ------------------------------------------- choosing the localization
\* sorted(all_localizations, key=lambda x : x.date), a stable sort
RECURSIVE InsertByDate(_, _)
InsertByDate(loc, sorted) ==
    IF sorted = << >> THEN <<loc>>
    ELSE IF loc.date < Head(sorted).date THEN <<loc>> \o sorted
         ELSE <<Head(sorted)>> \o InsertByDate(loc, Tail(sorted))

RECURSIVE SortedByDate(_)
SortedByDate(locs) ==
    IF locs = << >> THEN << >>
    ELSE InsertByDate(locs[Len(locs)], SortedByDate(SubSeq(locs, 1, Len(locs) - 1)))

\* vet.py:126
IsMoreRecent(test_loc_time, curr_loc_time, cutoff) ==
    test_loc_time > curr_loc_time /\ test_loc_time <= cutoff

\* vet.py:121-127: the loop over all_localizations_sorted[1:]
RECURSIVE MostRecent(_, _, _)
MostRecent(current, rest, cutoff) ==
    IF rest = << >> THEN current
    ELSE MostRecent(
            IF IsMoreRecent(Head(rest).date, current.date, cutoff)
            THEN Head(rest) ELSE current,
            Tail(rest), cutoff)

\* vet.py:106-129
_localization_from_name(localizations, cutoff) ==
    LET all_localizations_sorted == SortedByDate(localizations)
    IN  MostRecent(all_localizations_sorted[1], Tail(all_localizations_sorted), cutoff)

Dates == 0..MaxDate

\* an event with one to MaxLocalizations localizations, and a cutoff time
InitLoc ==
    /\ PipelineInit
    /\ \E n \in 1..MaxLocalizations :
          \E dates \in [1..n -> Dates] :
             all_localizations = [i \in 1..n |-> [id |-> i, date |-> dates[i]]]
    /\ max_time \in Dates
    /\ localization = NoLocalization
    /\ lightcurve = FittedLightCurve
    /\ NoCall

SelectLocalization ==
    /\ localization = NoLocalization
    /\ localization' = _localization_from_name(all_localizations, max_time)
    /\ UNCHANGED <<scoreFactors, targetExtras, photometry, pc, mode, event,
                   skymap_score, df, host_df, hosts_before, exc, stages, written,
                   all_localizations, max_time, lightcurve, args, result>>

NextLoc == SelectLocalization

SpecLoc == InitLoc /\ [][NextLoc]_vars

\* ----------------------------------- the localization a vet_bns run uses
\* The default `max_time=Time.now()` of skymap_association (vet.py:263),
\* host_distance_match (vet.py:404), _distance_at_healpix (vet.py:131) and
\* _localization_from_name (vet.py:106) is evaluated once, when the server
\* imports vet.py; max_time holds that value.  result.now is the clock.
\* The server has just imported the module and the event has its first
\* localization.
InitRun ==
    /\ PipelineInit
    /\ all_localizations = <<[id |-> 1, date |-> 0]>>
    /\ max_time = 0
    /\ localization = NoLocalization
    /\ lightcurve = FittedLightCurve
    /\ args = None
    /\ result = [called |-> FALSE, now |-> 0]

RunUnchanged ==
    UNCHANGED <<scoreFactors, targetExtras, photometry, pc, mode, event,
                skymap_score, df, host_df, hosts_before, exc, stages, written,
                lightcurve, args>>

\* time passes
Tick ==
    /\ ~result.called
    /\ result.now < MaxDate
    /\ result' = [result EXCEPT !.now = @ + 1]
    /\ UNCHANGED <<all_localizations, max_time, localization>>
    /\ RunUnchanged

\* a localization of the event, issued by now, is ingested
IngestLocalization ==
    /\ ~result.called
    /\ Len(all_localizations) < MaxLocalizations
    /\ \E date \in 0..result.now :
          all_localizations' =
             Append(all_localizations,
                    [id |-> Len(all_localizations) + 1, date |-> date])
    /\ UNCHANGED <<max_time, localization, result>>
    /\ RunUnchanged

\* the server is restarted: vet.py is imported again and the defaults are
\* evaluated again
ImportModule ==
    /\ ~result.called
    /\ max_time' = result.now
    /\ UNCHANGED <<all_localizations, localization, result>>
    /\ RunUnchanged

\* vet_bns.py:124 and 137-141: skymap_association and host_distance_match are
\* called without max_time, so both select with the default
VetBnsSelectsLocalization ==
    /\ ~result.called
    /\ localization' = _localization_from_name(all_localizations, max_time)
    /\ result' = [called |-> TRUE, now |-> result.now]
    /\ UNCHANGED <<all_localizations, max_time>>
    /\ RunUnchanged

NextRun ==
    \/ Tick
    \/ IngestLocalization
    \/ ImportModule
    \/ VetBnsSelectsLocalization

SpecRun == InitRun /\ [][NextRun]_vars

\* ------------------------------------------------- fitting the light curve
\* vet_phot.py:188-189
pl_nparams == 2
bpl_nparams == 4

\* scipy.optimize.curve_fit on n points: no data is a ValueError, fewer
\* points than parameters a TypeError, otherwise the fit converges or
\* raises RuntimeError
curve_fit(nparams, n, outcome) ==
    IF n = 0 THEN "ValueError"
    ELSE IF n < nparams THEN "TypeError"
    ELSE outcome

\* the fitted parameters: (a, y0) and (a1, a2, y0, x0)
pl_popt == <<2, 20>>
bpl_popt == <<-3, 1, 20, 2>>

\* vet_phot.py:267-275: the time on the grid at which the model is brightest
grid_max_time(model) == IF model = "_powerlaw" THEN 10 ELSE 1

\* mutant: the broken power law is tried with more points than it has parameters
Mut_BplAttempted(n) == n > bpl_nparams

\* vet_phot.py:216
BplAttempted(n) == n > bpl_nparams + 2

Raised(exception, bpl_attempted) ==
    [called |-> TRUE, raised |-> exception, bpl_attempted |-> bpl_attempted]

Returned(model, best_fit_params, decay_rate, bpl_attempted) ==
    [called |-> TRUE, raised |-> None, bpl_attempted |-> bpl_attempted,
     model |-> model, best_fit_params |-> best_fit_params,
     max_time |-> grid_max_time(model), decay_rate |-> decay_rate]

\* vet_phot.py:154-277
estimate_max_find_decay_rate(lc) ==
    LET pl_fit == curve_fit(pl_nparams, lc.n, lc.pl)
        bpl_attempted == BplAttempted(lc.n)
        bpl_fit == IF bpl_attempted THEN curve_fit(bpl_nparams, lc.n, lc.bpl)
                   ELSE None
        pl_failed == pl_fit # "converged"
        bpl_failed == bpl_fit # "converged"
        \* pl_info_crit and bpl_info_crit are assigned only at lines 244-251
        info_crit_bound == ~pl_failed /\ ~bpl_failed
    IN  IF pl_fit \in {"ValueError", "TypeError"}
        THEN \* line 203 catches RuntimeError only
             Raised(pl_fit, FALSE)
        ELSE IF ~pl_failed /\ bpl_failed
        THEN Returned("_powerlaw", pl_popt, pl_popt[1], bpl_attempted)
        ELSE IF ~info_crit_bound
        THEN \* line 254 reads pl_info_crit before any assignment
             Raised("UnboundLocalError", bpl_attempted)
        ELSE IF lc.pl_better /\ ~pl_failed
        THEN Returned("_powerlaw", pl_popt, pl_popt[1], bpl_attempted)
        ELSE IF ~bpl_failed
        THEN Returned("_broken_powerlaw", bpl_popt, -bpl_popt[1], bpl_attempted)
        ELSE Raised("RuntimeError", bpl_attempted)

\* the light curves estimate_max_find_decay_rate is called on
LightCurves ==
    {LightCurve(n, pl, bpl, pl_better, 0) :
        n \in 0..MaxPoints, pl \in FitOutcomes, bpl \in FitOutcomes,
        pl_better \in BOOLEAN}

InitFit ==
    /\ PipelineInit
    /\ NoLocalizations
    /\ lightcurve \in LightCurves
    /\ NoCall

EstimateMaxFindDecayRate ==
    /\ ~result.called
    /\ result' = estimate_max_find_decay_rate(lightcurve)
    /\ UNCHANGED <<scoreFactors, targetExtras, photometry, pc, mode, event,
                   skymap_score, df, host_df, hosts_before, exc, stages, written,
                   locVars, lightcurve, args>>

NextFit == EstimateMaxFindDecayRate

SpecFit == InitFit /\ [][NextFit]_vars

\* ------------------------------------------------------- filter names
\* A filter name is the sequence of its characters.  The characters that
\* matter to standardize_filter_names: a letter, the three delimiters, and
\* a whitespace character that is not a delimiter.
Chars == {"g", ".", "-", " ", "\t"}
Whitespace == {" ", "\t"}

Names == UNION {[1..n -> Chars] : n \in 0..MaxNameLen}

\* the lists of at most two names
FilterLists == {<< >>} \cup {<<a>> : a \in Names} \cup {<<a, b>> : a, b \in Names}

\* str.split(delim)[0]: the part before the first delim, everything without one
SplitHead(name, delim) ==
    LET at == {i \in DOMAIN name : name[i] = delim}
    IN  IF at = {} THEN name
        ELSE SubSeq(name, 1, (CHOOSE i \in at : \A j \in at : i <= j) - 1)

\* str.strip(): without the whitespace at both ends
RECURSIVE strip(_)
strip(name) ==
    IF name = << >> THEN name
    ELSE IF Head(name) \in Whitespace THEN strip(Tail(name))
    ELSE IF name[Len(name)] \in Whitespace
         THEN strip(SubSeq(name, 1, Len(name) - 1))
    ELSE name

\* mutant: the space is not a delimiter
Mut_delimiters == <<".", "-">>

\* vet_phot.py:143
delimiters == <<".", "-", " ">>

\* vet_phot.py:149-150: the splits, one delimiter after the other
RECURSIVE SplitAll(_, _)
SplitAll(newfilt, delims) ==
    IF delims = << >> THEN newfilt
    ELSE SplitAll(SplitHead(newfilt, Head(delims)), Tail(delims))

\* vet_phot.py:141-152
standardize_filter_names(filters) ==
    [i \in DOMAIN filters |-> strip(SplitAll(filters[i], delimiters))]

InitFilt ==
    /\ PipelineInit
    /\ NoLocalizations
    /\ lightcurve = FittedLightCurve
    /\ args \in FilterLists
    /\ result = NoResult

StandardizeFilterNames ==
    /\ ~result.called
    /\ result' = [called |-> TRUE, value |-> standardize_filter_names(args)]
    /\ UNCHANGED <<scoreFactors, targetExtras, photometry, pc, mode, event,
                   skymap_score, df, host_df, hosts_before, exc, stages, written,
                   locVars, lightcurve, args>>

NextFilt == StandardizeFilterNames

SpecFilt == InitFilt /\ [][NextFilt]_vars

\* ------------------------------------------------- the photometry table
\* A photometry ReducedDatum: source_name and timestamp are fields of the
\* model class; value is a dict that may lack any of the keys filter,
\* magnitude, limit and error.  Magnitudes are in thousandths.
Datum(mjd, has_filter, has_magnitude, has_limit, has_error) ==
    [source_name |-> "ATLAS", mjd |-> mjd,
     has_filter |-> has_filter, filter |-> <<"g", "-">>,
     has_magnitude |-> has_magnitude, magnitude |-> 20000,
     has_limit |-> has_limit, limit |-> 21000,
     has_error |-> has_error, error |-> 100]

\* the photometry of a target: at most MaxRecords records, one per day
DatumLists ==
    UNION {{[i \in 1..n |-> Datum(i, f[i][1], f[i][2], f[i][3], f[i][4])] :
               f \in [1..n -> BOOLEAN \X BOOLEAN \X BOOLEAN \X BOOLEAN]} :
           n \in 0..MaxRecords}

\* vet_phot.py:55-62
EmptyColumns ==
    [telescope |-> << >>, mjd |-> << >>, mag |-> << >>, magerr |-> << >>,
     upperlimit |-> << >>, filter |-> << >>]

\* vet_phot.py:68-93: what one pass of the loop appends to the six lists
AppendDatum(fordf, p) ==
    LET with_time == [fordf EXCEPT !.telescope = Append(@, p.source_name),
                                   !.mjd = Append(@, p.mjd)]
        with_filter == [with_time EXCEPT !.filter = Append(@, p.filter)]
    IN  IF ~p.has_filter THEN with_time
        ELSE IF p.has_magnitude
        THEN [with_filter EXCEPT
                !.mag = Append(@, p.magnitude),
                !.upperlimit = Append(@, FALSE),
                !.magerr = Append(@, IF p.has_error THEN p.error ELSE 0)]
        ELSE IF p.has_limit
        THEN [with_filter EXCEPT
                !.upperlimit = Append(@, TRUE),
                !.mag = Append(@, p.limit),
                !.magerr = Append(@, NaN)]
        ELSE with_filter

RECURSIVE FillColumns(_, _)
FillColumns(fordf, phot) ==
    IF phot = << >> THEN fordf
    ELSE FillColumns(AppendDatum(fordf, Head(phot)), Tail(phot))

\* vet_phot.py:102: 2.5 / (3 * log(10)), the 3 sigma uncertainty, in thousandths
three_sigma_magerr == 362

\* vet_phot.py:105-109: the date of the event
gw_disc_date == 1

FrameRaised(exception) == [called |-> TRUE, raised |-> exception]
FrameReturned(rows) == [called |-> TRUE, raised |-> None, rows |-> rows]

\* vet_phot.py:43-115.  pd.DataFrame(dict of lists) raises ValueError when the
\* lists differ in length.
_get_phot(phot) ==
    IF Len(phot) = 0 THEN FrameReturned(<< >>)
    ELSE LET filled == FillColumns(EmptyColumns, phot)
             fordf == [filled EXCEPT !.filter = standardize_filter_names(@)]
             lengths == {Len(fordf.telescope), Len(fordf.mjd), Len(fordf.mag),
                         Len(fordf.magerr), Len(fordf.upperlimit),
                         Len(fordf.filter)}
         IN  IF Cardinality(lengths) # 1 THEN FrameRaised("ValueError")
             ELSE FrameReturned(
                    [i \in 1..Len(fordf.mjd) |->
                        [telescope |-> fordf.telescope[i],
                         mjd |-> fordf.mjd[i],
                         mag |-> fordf.mag[i],
                         magerr |-> IF fordf.magerr[i] = 0 THEN three_sigma_magerr
                                    ELSE fordf.magerr[i],
                         upperlimit |-> fordf.upperlimit[i],
                         filter |-> fordf.filter[i],
                         dt |-> fordf.mjd[i] - gw_disc_date]])

InitGetPhot ==
    /\ PipelineInit
    /\ NoLocalizations
    /\ lightcurve = FittedLightCurve
    /\ args \in DatumLists
    /\ result = NoResult

GetPhot ==
    /\ ~result.called
    /\ result' = _get_phot(args)
    /\ UNCHANGED <<scoreFactors, targetExtras, photometry, pc, mode, event,
                   skymap_score, df, host_df, hosts_before, exc, stages, written,
                   locVars, lightcurve, args>>

NextGetPhot == GetPhot

SpecGetPhot == InitGetPhot /\ [][NextGetPhot]_vars

\* ------------------------------------------------ predetection windows
\* np.log(10), in thousandths
ln10 == 2303

\* vet_phot.py:362: a detection has an uncertainty that is not NaN and is
\* below 2.5 / (det_snr_thresh * ln 10); magerr is in thousandths of a magnitude
IsDetection(magerr, det_snr_thresh) ==
    magerr # NaN /\ magerr * det_snr_thresh * ln10 < 2500 * 1000

\* np.argsort(mjd) for distinct times: the indices in the order of their times
argsort(mjd) ==
    [k \in DOMAIN mjd |->
        CHOOSE i \in DOMAIN mjd :
            Cardinality({j \in DOMAIN mjd : mjd[j] < mjd[i]}) = k - 1]

\* np.where(times == t)[0][0], counted from 1
FirstIndex(times, t) ==
    CHOOSE k \in DOMAIN times :
        times[k] = t /\ \A j \in DOMAIN times : times[j] = t => k <= j

\* vet_phot.py:138-139.  The slice isdet[min_idx:max_idx] starts at min_idx
\* and stops before max_idx; with indices counted from 1 these are the
\* elements min_idx .. max_idx - 1.
_get_window_stats(min_idx, max_idx, isdet) ==
    LET window == SubSeq(isdet, min_idx, max_idx - 1)
    IN  <<Cardinality({k \in DOMAIN window : window[k]}), Len(window)>>

\* vet_phot.py:332-379.  res has one entry per i in
\* range(window_size, len(isdet) - window_size); tuple(zip(*res)) is the pair
\* of the two columns of res, and the empty tuple when res is empty.
get_predetection_stats(mjd, magerr, det_snr_thresh, window_size) ==
    LET sorted_idx == argsort(mjd)
        times == [k \in DOMAIN mjd |-> mjd[sorted_idx[k]]]
        isdet == [k \in DOMAIN mjd |->
                     IsDetection(magerr[sorted_idx[k]], det_snr_thresh)]
        first == window_size + 1
        last == Len(isdet) - window_size
        res == [k \in 1..(last - first + 1) |->
                   LET i == first + k - 1
                   IN  _get_window_stats(
                           FirstIndex(times, times[i - window_size]),
                           FirstIndex(times, times[i + window_size]),
                           isdet)]
    IN  IF res = << >> THEN << >>
        ELSE <<[k \in DOMAIN res |-> res[k][1]], [k \in DOMAIN res |-> res[k][2]]>>

TimeOrders(n) == {f \in [1..n -> 1..n] : \A i, j \in 1..n : f[i] = f[j] => i = j}

\* uncertainties: a limit (NaN) and the two values next to the threshold of
\* det_snr_thresh = 5, which is 217.1 thousandths
MagErrs == {NaN, 217, 218}
WindowSizes == {1, 2}

\* vet_bns.py:49
PREDETECTION_SNR_THRESHOLD == 5

\* epochs at distinct times in any order, with any uncertainties
PredetectionArgs ==
    UNION {[mjd : TimeOrders(n), magerr : [1..n -> MagErrs],
            det_snr_thresh : {PREDETECTION_SNR_THRESHOLD},
            window_size : WindowSizes] : n \in 0..MaxEpochs}

InitPredet ==
    /\ PipelineInit
    /\ NoLocalizations
    /\ lightcurve = FittedLightCurve
    /\ args \in PredetectionArgs
    /\ result = NoResult

GetPredetectionStats ==
    /\ ~result.called
    /\ result' = [called |-> TRUE,
                  value |-> get_predetection_stats(args.mjd, args.magerr,
                                args.det_snr_thresh, args.window_size)]
    /\ UNCHANGED <<scoreFactors, targetExtras, photometry, pc, mode, event,
                   skymap_score, df, host_df, hosts_before, exc, stages, written,
                   locVars, lightcurve, args>>

NextPredet == GetPredetectionStats

SpecPredet == InitPredet /\ [][NextPredet]_vars

\* ------------------------------------------------ cleaning a catalog's rows
\* the standardized rows of one catalog, as host_association gets them
CatalogFrames ==
    UNION {[cat : {c}, frame : UNION {[1..n -> CatalogRows(c)] : n \in 0..MaxFrameRows}] :
           c \in {catalogs[i] : i \in DOMAIN catalogs}}

InitClean ==
    /\ PipelineInit
    /\ NoLocalizations
    /\ lightcurve = FittedLightCurve
    /\ args \in CatalogFrames
    /\ result = NoResult

\* vet.py:361-368
CleanCatalogRows ==
    /\ ~result.called
    /\ result' = [called |-> TRUE, value |-> Cleaned(args.cat, args.frame)]
    /\ UNCHANGED <<scoreFactors, targetExtras, photometry, pc, mode, event,
                   skymap_score, df, host_df, hosts_before, exc, stages, written,
                   locVars, lightcurve, args>>

NextClean == CleanCatalogRows

SpecClean == InitClean /\ [][NextClean]_vars

\* --------------------------------------------- waiting for the ZTF e-mail
\* The arguments of ZTF_Forced_Phot.query and, as arrives_at, the poll at
\* which _query_ztf_email first finds the result e-mail (0: it never does).
ZtfQueryArgs ==
    [wait_for_results : BOOLEAN,
     max_wait_time : 0..MaxWaitTime,
     dt_wait_time : 1..MaxDtWaitTime,
     arrives_at : 0..(MaxWaitTime + 2)]

\* the call before its first statement
ZtfNotCalled ==
    [called |-> FALSE, polls |-> 0, total_time_waited |-> 0,
     found |-> FALSE, returned |-> FALSE]

\* phot_catalogs.py:702-794: the files when the e-mail is there, None when
\* it is not or when anything raised
_query_ztf_email(a, poll) == a.arrives_at # 0 /\ poll >= a.arrives_at

\* mutant: the loop never gives up
Mut_GivesUp(total_time_waited, max_wait_time) == FALSE

\* phot_catalogs.py:592-593
GivesUp(total_time_waited, max_wait_time) == total_time_waited > max_wait_time

InitZtf ==
    /\ PipelineInit
    /\ NoLocalizations
    /\ lightcurve = FittedLightCurve
    /\ args \in ZtfQueryArgs
    /\ result = ZtfNotCalled

ZtfUnchanged ==
    UNCHANGED <<scoreFactors, targetExtras, photometry, pc, mode, event,
                skymap_score, df, host_df, hosts_before, exc, stages, written,
                locVars, lightcurve, args>>

\* phot_catalogs.py:570-581: the request is sent; without wait_for_results
\* the call returns
ZtfSubmit ==
    /\ ~result.called
    /\ result' = [result EXCEPT !.called = TRUE,
                                !.returned = ~args.wait_for_results]
    /\ ZtfUnchanged

\* phot_catalogs.py:583-593: one pass of the while loop, with the test that
\* ends it
ZtfPoll ==
    /\ result.called
    /\ ~result.returned
    /\ LET found == _query_ztf_email(args, result.polls + 1)
           total_time_waited == result.total_time_waited + args.dt_wait_time
       IN  result' = [result EXCEPT
                        !.polls = @ + 1,
                        !.found = found,
                        !.total_time_waited = total_time_waited,
                        !.returned = GivesUp(total_time_waited, args.max_wait_time)
                                        \/ found]
    /\ ZtfUnchanged

NextZtf == ZtfSubmit \/ ZtfPoll

SpecZtf == InitZtf /\ [][NextZtf]_vars

\* a call that can take a step takes it
FairSpecZtf == SpecZtf /\ WF_vars(NextZtf)

\* --------------------------------------------- overlap of the distances
\* Distances are whole Mpc and densities are in thousandths.  The distance
\* array _lumdist (vet.py:437) has a step of 1 Mpc; the model keeps the part
\* of it that holds the distributions.
lumdist_last == 16
_lumdist == [i \in 1..(lumdist_last + 1) |-> i - 1]

\* exp(-0.5 * (d / sigma)^2) in thousandths, for sigma = 1, 2 and 3
GaussTable ==
    << <<1000, 607, 135, 11>>,
       <<1000, 882, 607, 325, 135, 44, 11, 2>>,
       <<1000, 946, 801, 607, 411, 249, 135, 66, 29, 11, 4, 1>> >>

ExpHalfSq(d, sigma) ==
    IF d + 1 \in DOMAIN GaussTable[sigma] THEN GaussTable[sigma][d + 1] ELSE 0

Abs(a) == IF a < 0 THEN -a ELSE a

\* sqrt(2 pi) in thousandths
sqrt_2pi == 2507

\* scipy.stats.norm.pdf: NaN when the scale is not positive
norm_pdf(x, loc, scale) ==
    IF scale <= 0 THEN NaN
    ELSE (ExpHalfSq(Abs(x - loc), scale) * 1000) \div (scale * sqrt_2pi)

\* vet.py:73-86
_pdf_unnorm(x, mean, unc_minus, unc_plus) ==
    IF x < mean THEN ExpHalfSq(mean - x, unc_minus)
    ELSE ExpHalfSq(x - mean, unc_plus)

RECURSIVE SumTo(_, _)
SumTo(y, n) == IF n = 0 THEN 0 ELSE y[n] + SumTo(y, n - 1)

\* numpy.trapz / scipy.integrate.trapezoid with unit steps
trapezoid(y) ==
    IF Len(y) < 2 THEN 0
    ELSE (2 * SumTo(y, Len(y)) - y[1] - y[Len(y)]) \div 2

\* vet.py:88-104 under rv_continuous.pdf, which gives NaN when a shape
\* parameter is not positive; with a zero unc the division at vet.py:80, 83 has
\* no finite value either
AsymmetricGaussian_pdf(x, mean, unc_minus, unc_plus) ==
    IF unc_minus <= 0 \/ unc_plus <= 0 THEN NaN
    ELSE LET integ == trapezoid([i \in DOMAIN _lumdist |->
                          _pdf_unnorm(_lumdist[i], mean, unc_minus, unc_plus)])
         IN  (_pdf_unnorm(x, mean, unc_minus, unc_plus) * 1000) \div integ

\* np.sqrt of a product of two densities in thousandths, in thousandths
sqrt(n) == CHOOSE r \in 0..1000 : r * r <= n /\ n < (r + 1) * (r + 1)

\* vet.py:400-460 for one host row: NaN in, NaN out
host_distance_match(row, dist, dist_err) ==
    LET test_pdf == [i \in DOMAIN _lumdist |-> norm_pdf(_lumdist[i], dist, dist_err)]
        host_pdf == [i \in DOMAIN _lumdist |->
                        AsymmetricGaussian_pdf(_lumdist[i], row.lumdist,
                            row.lumdist_neg_err, row.lumdist_pos_err)]
    IN  IF \E i \in DOMAIN _lumdist : test_pdf[i] = NaN \/ host_pdf[i] = NaN
        THEN NaN
        ELSE trapezoid([i \in DOMAIN _lumdist |-> sqrt(host_pdf[i] * test_pdf[i])])

\* the distances and uncertainties of hosts and events
MeanDistances == 7..9
Uncertainties == 0..MaxUncertainty

DistanceArgs ==
    [lumdist : MeanDistances, lumdist_neg_err : Uncertainties,
     lumdist_pos_err : Uncertainties, dist : MeanDistances,
     dist_err : Uncertainties]

InitDist ==
    /\ PipelineInit
    /\ NoLocalizations
    /\ lightcurve = FittedLightCurve
    /\ args \in DistanceArgs
    /\ result = NoResult

HostDistanceMatch ==
    /\ ~result.called
    /\ result' = [called |-> TRUE,
                  dist_norm_joint_prob |->
                      host_distance_match(args, args.dist, args.dist_err)]
    /\ UNCHANGED <<scoreFactors, targetExtras, photometry, pc, mode, event,
                   skymap_score, df, host_df, hosts_before, exc, stages, written,
                   locVars, lightcurve, args>>

NextDist == HostDistanceMatch

SpecDist == InitDist /\ [][NextDist]_vars

\* ------------------------------------------------- two runs saving hosts
\* the lists host_association can come to save
SavedLists ==
    {RankedHosts(QueryCatalogs(("GladePlus" :> glade) @@ ("Gwgc" :> gwgc), 1)) :
        glade \in QuerySets("GladePlus"), gwgc \in QuerySets("Gwgc")} \ {<< >>}

Runs == {"A", "B"}

\* Two runs for the target, each about to save its list, and what an earlier
\* run left in the table.  result holds, per run, the statement of
\* _save_host_galaxy_df it is at, and the run that wrote last.
InitSave ==
    /\ scoreFactors = EmptyBag
    /\ targetExtras \in {EmptyBag}
          \cup {_save_host_galaxy_df(EmptyBag, hosts, target_id) : hosts \in SavedLists}
    /\ photometry = "none"
    /\ pc = "idle"
    /\ mode = None
    /\ event = None
    /\ skymap_score = One
    /\ df = << >>
    /\ host_df = << >>
    /\ hosts_before = {}
    /\ exc = None
    /\ stages = << >>
    /\ written = [ev \in Events |-> {}]
    /\ NoLocalizations
    /\ lightcurve = FittedLightCurve
    /\ args \in [Runs -> SavedLists]
    /\ result = [at |-> [run \in Runs |-> "delete"], last |-> None]

SaveUnchanged ==
    UNCHANGED <<scoreFactors, photometry, pc, mode, event, skymap_score, df,
                host_df, hosts_before, exc, stages, written, locVars,
                lightcurve, args>>

\* vet.py:163-164
SaveDelete(run) ==
    /\ result.at[run] = "delete"
    /\ targetExtras' = DeleteHostGalaxies(targetExtras, target_id)
    /\ result' = [result EXCEPT !.at[run] = "write"]
    /\ SaveUnchanged

\* vet.py:166-208
SaveWrite(run) ==
    /\ result.at[run] = "write"
    /\ targetExtras' = WriteHostGalaxies(targetExtras, args[run], target_id)
    /\ result' = [result EXCEPT !.at[run] = "done", !.last = run]
    /\ SaveUnchanged

NextSave == \E run \in Runs : SaveDelete(run) \/ SaveWrite(run)

SpecSave == InitSave /\ [][NextSave]_vars

\* ----------------------------------------------- the ATLAS query of a run
\* The arguments of find_public_phot and what it finds: whether the target
\* has ATLAS photometry, how old the latest ATLAS point is (now minus its
\* timestamp, in half days), and what the TNS replies.
FindPhotArgs ==
    [has_atlas : BOOLEAN,
     age : 0..MaxAge,
     forced_phot_tol : 0..2,
     days_ago_max : {2, 5},
     tns : {<<ConnectionFailure>>,
            <<TnsReply(FALSE, 200, FALSE, 5, 30, "no photometry")>>}]

\* timedelta.days of (last_atlas_point.timestamp - now): the difference is
\* negative and .days rounds towards minus infinity
DaysOfDifference(age) == -((age + 1) \div 2)

Min(a, b) == IF a < b THEN a ELSE b

FindRaised(exception) == [called |-> TRUE, raised |-> exception]
FindReturned(enqueued, days_ago) ==
    [called |-> TRUE, raised |-> None, enqueued |-> enqueued, days_ago |-> days_ago]

\* vet_phot.py:381-437; days_ago is reported as 0 when nothing is enqueued
find_public_phot(a) ==
    LET found == TNS_Phot_query(a.tns, tns_timelimit)
        older == a.age > 2 * a.forced_phot_tol
        days_ago == IF a.has_atlas /\ older THEN DaysOfDifference(a.age)
                    ELSE a.days_ago_max
        query_atlas == IF ~a.has_atlas THEN TRUE
                       ELSE IF older THEN days_ago > 3
                       ELSE FALSE
    IN  IF found.raised # None THEN FindRaised(found.raised)
        ELSE IF query_atlas
        THEN FindReturned(TRUE, Min(a.days_ago_max, days_ago))
        ELSE FindReturned(FALSE, 0)

InitFind ==
    /\ PipelineInit
    /\ NoLocalizations
    /\ lightcurve = FittedLightCurve
    /\ args \in FindPhotArgs
    /\ result = NoResult

FindPublicPhotCall ==
    /\ ~result.called
    /\ result' = find_public_phot(args)
    /\ UNCHANGED <<scoreFactors, targetExtras, photometry, pc, mode, event,
                   skymap_score, df, host_df, hosts_before, exc, stages, written,
                   locVars, lightcurve, args>>

NextFind == FindPublicPhotCall

SpecFind == InitFind /\ [][NextFind]_vars

\* --------------------------------------------- waiting for the TNS limit
\* the replies of the TNS to the successive POSTs of one _post_to_tns call
TnsPostReplies == UNION {[1..n -> TnsReplies] : n \in 1..MaxPosts}

\* phot_catalogs.py:166-184: the reply makes the loop sleep and post again
PostSleeps(response, timelimit) ==
    /\ ~response.error
    /\ response.status_code = 200
    /\ ~response.exceeded
    /\ ~(response.remaining < 0 \/ response.time_to_reset < 0)
    /\ response.remaining = 0
    /\ response.time_to_reset < timelimit

\* the call before its first POST
TnsNotPosted == [posts |-> 0, slept |-> 0, returned |-> FALSE]

InitTns ==
    /\ PipelineInit
    /\ NoLocalizations
    /\ lightcurve = FittedLightCurve
    /\ args \in TnsPostReplies
    /\ result = TnsNotPosted

\* phot_catalogs.py:158-192: one pass of the while loop; the replies that
\* are observed end with the last one of args
TnsPost ==
    /\ ~result.returned
    /\ result.posts < Len(args)
    /\ LET response == args[result.posts + 1]
       IN  IF PostSleeps(response, tns_timelimit)
           THEN result' = [result EXCEPT !.posts = @ + 1,
                                         !.slept = @ + response.time_to_reset]
           ELSE result' = [result EXCEPT !.posts = @ + 1, !.returned = TRUE]
    /\ UNCHANGED <<scoreFactors, targetExtras, photometry, pc, mode, event,
                   skymap_score, df, host_df, hosts_before, exc, stages, written,
                   locVars, lightcurve, args>>

NextTns == TnsPost

SpecTns == InitTns /\ [][NextTns]_vars

\* ------------------------------------------ the pending ZTF requests
\* What the e-mail of a request will hold: files of a known target, files at
\* coordinates of no target, or files that cannot be parsed.
RequestKinds == {"ok", "no_target", "unparseable"}

\* The request logs in ZTFTMPDIR, in the order glob lists them; arrived tells
\* whether the e-mail of the request is in the mailbox.
PendingRequests ==
    UNION {{[i \in 1..n |-> [id |-> i, kind |-> kinds[i], arrived |-> FALSE]] :
               kinds \in [1..n -> RequestKinds]} : n \in 1..MaxRequests}

\* phot_catalogs.py:603-643, the loop over the log files: the log files that
\* are left, the requests that were ingested and the exception that ended the
\* loop.  _query_ztf_email gives None for a request without e-mail; targ is
\* None for files of no target and `targ.name` (627) raises AttributeError;
\* _read_fp_log (611) or read_csv (630) raise for files they cannot parse.
RECURSIVE check_for_new_data(_)
check_for_new_data(logfiles) ==
    IF logfiles = << >>
    THEN [logfiles |-> << >>, targets_finished |-> {}, raised |-> None]
    ELSE LET logfile == Head(logfiles)
             rest == check_for_new_data(Tail(logfiles))
         IN  IF ~logfile.arrived
             THEN [rest EXCEPT !.logfiles = <<logfile>> \o @]
             ELSE IF logfile.kind = "no_target"
             THEN [logfiles |-> logfiles, targets_finished |-> {},
                   raised |-> "AttributeError"]
             ELSE IF logfile.kind = "unparseable"
             THEN [logfiles |-> logfiles, targets_finished |-> {},
                   raised |-> "ValueError"]
             ELSE [rest EXCEPT !.targets_finished = @ \cup {logfile.id}]

InitCheck ==
    /\ PipelineInit
    /\ NoLocalizations
    /\ lightcurve = FittedLightCurve
    /\ args = None
    /\ \E logfiles \in PendingRequests :
          result = [logfiles |-> logfiles, ingested |-> {}, runs |-> 0,
                    raised |-> None]

CheckUnchanged ==
    UNCHANGED <<scoreFactors, targetExtras, photometry, pc, mode, event,
                skymap_score, df, host_df, hosts_before, exc, stages, written,
                locVars, lightcurve, args>>

\* the ZTF service answers a request
EmailArrives ==
    /\ \E i \in DOMAIN result.logfiles :
          /\ ~result.logfiles[i].arrived
          /\ result' = [result EXCEPT !.logfiles[i].arrived = TRUE]
    /\ CheckUnchanged

\* check_for_ztf_fp.py:21-35: one run of the command; an exception of
\* check_for_new_data is logged
CheckForNewData ==
    /\ result.runs < MaxRuns
    /\ LET checked == check_for_new_data(result.logfiles)
       IN  result' = [logfiles |-> checked.logfiles,
                      ingested |-> result.ingested \cup checked.targets_finished,
                      runs |-> result.runs + 1,
                      raised |-> checked.raised]
    /\ CheckUnchanged

NextCheck ==
    \/ EmailArrives
    \/ CheckForNewData

SpecCheck == InitCheck /\ [][NextCheck]_vars

\* ------------------------------------------------- the ATLAS query loops
\* a service that never stops doing what it does
Forever == -1

\* How the ATLAS service treats one query: whether a token is configured, how
\* many submissions it throttles with 429 before it answers with
\* submit_status, how many polls of the task it answers without a finish
\* timestamp, and the status of its answers to the polls.
AtlasQueryArgs ==
    [has_token : BOOLEAN,
     throttled : {Forever} \cup 0..MaxThrottled,
     submit_status : {201, 500},
     unfinished : {Forever} \cup 0..MaxUnfinished,
     poll_status : {200, 500}]

\* what is left of a count after one more reply
Less(count) == IF count = Forever THEN Forever ELSE count - 1

InitAtlas ==
    /\ PipelineInit
    /\ NoLocalizations
    /\ lightcurve = FittedLightCurve
    /\ args \in AtlasQueryArgs
    /\ result = [at |-> "start", throttled |-> args.throttled,
                 unfinished |-> args.unfinished]

AtlasUnchanged ==
    UNCHANGED <<scoreFactors, targetExtras, photometry, pc, mode, event,
                skymap_score, df, host_df, hosts_before, exc, stages, written,
                locVars, lightcurve, args>>

\* phot_catalogs.py:246-263
AtlasStart ==
    /\ result.at = "start"
    /\ result' = [result EXCEPT !.at = IF args.has_token THEN "submit" ELSE "raised"]
    /\ AtlasUnchanged

\* phot_catalogs.py:264-290: one POST to the queue, up to the sleep
AtlasSubmit ==
    /\ result.at = "submit"
    /\ IF result.throttled # 0
       THEN result' = [result EXCEPT !.at = "submit_sleep", !.throttled = Less(@)]
       ELSE IF args.submit_status = 201
       THEN result' = [result EXCEPT !.at = "poll"]
       ELSE result' = [result EXCEPT !.at = "exited"]
    /\ AtlasUnchanged

\* phot_catalogs.py:286, then the test of `while not task_url`
AtlasSubmitSleep ==
    /\ result.at = "submit_sleep"
    /\ result' = [result EXCEPT !.at = "submit"]
    /\ AtlasUnchanged

\* phot_catalogs.py:294-313: one GET of the task, up to the sleep; with a
\* finish timestamp the result is fetched and stored (315-325)
AtlasPoll ==
    /\ result.at = "poll"
    /\ IF args.poll_status # 200
       THEN result' = [result EXCEPT !.at = "exited"]
       ELSE IF result.unfinished = 0
       THEN result' = [result EXCEPT !.at = "returned"]
       ELSE result' = [result EXCEPT !.at = "poll_sleep", !.unfinished = Less(@)]
    /\ AtlasUnchanged

\* phot_catalogs.py:306, 309, then the test of `while not result_url`
AtlasPollSleep ==
    /\ result.at = "poll_sleep"
    /\ result' = [result EXCEPT !.at = "poll"]
    /\ AtlasUnchanged

NextAtlas ==
    \/ AtlasStart
    \/ AtlasSubmit
    \/ AtlasSubmitSleep
    \/ AtlasPoll
    \/ AtlasPollSleep

SpecAtlas == InitAtlas /\ [][NextAtlas]_vars

\* the process that runs the query keeps running
FairSpecAtlas == SpecAtlas /\ WF_vars(NextAtlas)

\* ---------------------------------------------------- the displayed score
\* vet_bns.py:40-46 PARAM_RANGES, read by event_candidate_extras.py:60-67;
\* phot_peak_lum in units of 1e43 erg/s, phot_peak_time in days,
\* phot_decay_rate in mag/day (no lower limit)
OutOfRange(key, val) ==
    CASE key = "phot_peak_lum"   -> DecLT(val, Dec(0, 0)) \/ DecLT(One, val)
      [] key = "phot_peak_time"  -> DecLT(val, Dec(0, 0)) \/ DecLT(Dec(4, 0), val)
      [] key = "phot_decay_rate" -> DecLT(Dec(-1, 1), val)

val_not_score_keys == {"phot_peak_lum", "phot_peak_time", "phot_decay_rate"}

\* the values of a set of rows of a table, one per stored copy
RECURSIVE ValuesOf(_, _)
ValuesOf(table, rows) ==
    IF rows = {} THEN << >>
    ELSE LET r == CHOOSE x \in rows : TRUE
         IN  [i \in 1..table[r] |-> r.value] \o ValuesOf(table, rows \ {r})

\* event_candidate_extras.py:52-68: a factor 0.1 for each stored photometry
\* value outside its range
RECURSIVE PhotScore(_)
PhotScore(phot_rows) ==
    IF phot_rows = {} THEN One
    ELSE LET r == CHOOSE x \in phot_rows : TRUE
         IN  DecMul(IF OutOfRange(r.key, r.value) THEN PHOT_SCORE_MIN ELSE One,
                    PhotScore(phot_rows \ {r}))

\* event_candidate_extras.py:25-85, the score of one event candidate
get_event_candidate_scores(table, ec, subscore_names) ==
    LET subscores == {r \in Rows(table) :
                         r.event_candidate = ec /\ r.key \in subscore_names}
        phot_rows == {r \in subscores : r.key \in val_not_score_keys}
        phot_score == PhotScore(phot_rows)
        subscore_list == ValuesOf(table, subscores \ phot_rows) \o <<phot_score>>
    IN  DecProd(subscore_list)


\* ------------------------------------------- the score of the photometry
\* A value that may be None is a sequence of at most one element.
Nothing == << >>
Some(v) == <<v>>

\* the peak luminosities in units of 1e43 erg/s, the times of the peak in
\* days and the decay rates in mag/day that a run may find
PeakLums == {Dec(-1, 0), Dec(0, 0), Dec(5, 1), Dec(1, 0), Dec(2, 0)}
PeakTimes == {Dec(-1, 0), Dec(0, 0), Dec(2, 0), Dec(4, 0), Dec(5, 0)}
DecayRates == {Dec(-10, 1), Dec(-1, 1), Dec(-5, 2), Dec(0, 0)}

\* What _score_phot has at vet_bns.py:84: n, the number of detections in the
\* chosen filters, the peak luminosity (compute_peak_lum gives None for no
\* point, vet_phot.py:313-314) and the fit it makes of two points or more.
ScorePhotArgs ==
    {a \in [n : 0..2, lum : {Nothing} \cup {Some(l) : l \in PeakLums},
            max_time : PeakTimes, decay_rate : DecayRates] :
        (a.n = 0) <=> (a.lum = Nothing)}

\* mutant: the decay rate is tested against the lower end of its range
Mut_score_phot(a) ==
    LET lum_factor ==
            IF a.lum # Nothing
               /\ (DecLT(a.lum[1], Dec(0, 0)) \/ DecLT(One, a.lum[1]))
            THEN PHOT_SCORE_MIN ELSE One
        time_factor ==
            IF DecLT(a.max_time, Dec(0, 0)) \/ DecLT(Dec(4, 0), a.max_time)
            THEN PHOT_SCORE_MIN ELSE One
        decay_factor ==
            IF DecLT(a.decay_rate, Dec(-1, 1)) THEN PHOT_SCORE_MIN ELSE One
    IN  IF a.n > 1
        THEN [phot_score |-> DecMul(DecMul(lum_factor, time_factor), decay_factor),
              lum |-> a.lum, max_time |-> Some(a.max_time),
              decay_rate |-> Some(a.decay_rate)]
        ELSE [phot_score |-> lum_factor, lum |-> a.lum,
              max_time |-> Nothing, decay_rate |-> Nothing]

\* vet_bns.py:84-109 with PARAM_RANGES (vet_bns.py:40-46)
_score_phot(a) ==
    LET lum_factor ==
            IF a.lum # Nothing
               /\ (DecLT(a.lum[1], Dec(0, 0)) \/ DecLT(One, a.lum[1]))
            THEN PHOT_SCORE_MIN ELSE One
        time_factor ==
            IF DecLT(a.max_time, Dec(0, 0)) \/ DecLT(Dec(4, 0), a.max_time)
            THEN PHOT_SCORE_MIN ELSE One
        decay_factor ==
            IF DecLT(Dec(-1, 1), a.decay_rate) THEN PHOT_SCORE_MIN ELSE One
    IN  IF a.n > 1
        THEN [phot_score |-> DecMul(DecMul(lum_factor, time_factor), decay_factor),
              lum |-> a.lum, max_time |-> Some(a.max_time),
              decay_rate |-> Some(a.decay_rate)]
        ELSE [phot_score |-> lum_factor, lum |-> a.lum,
              max_time |-> Nothing, decay_rate |-> Nothing]

\* vet_bns.py:162-175: a value is stored, the row of a None is deleted
StoreOrDelete(table, event_candidate, key, value) ==
    IF value # Nothing
    THEN update_score_factor(table, event_candidate, key, value[1])
    ELSE delete_score_factor(table, event_candidate, key)

\* the values an earlier run has left for the candidate
StoredBefore ==
    {EmptyBag,
     SetToBag({[event_candidate |-> "S1", key |-> "phot_peak_lum", value |-> Dec(2, 0)],
               [event_candidate |-> "S1", key |-> "phot_peak_time", value |-> Dec(5, 0)],
               [event_candidate |-> "S1", key |-> "phot_decay_rate", value |-> Dec(0, 0)]})}

InitScore ==
    /\ scoreFactors \in StoredBefore
    /\ targetExtras = EmptyBag
    /\ photometry = "detections"
    /\ pc = "idle"
    /\ mode = None
    /\ event = "S1"
    /\ skymap_score = One
    /\ df = << >>
    /\ host_df = << >>
    /\ hosts_before = {}
    /\ exc = None
    /\ stages = << >>
    /\ written = [ev \in Events |-> {}]
    /\ NoLocalizations
    /\ lightcurve = FittedLightCurve
    /\ args \in ScorePhotArgs
    /\ result = NoResult

\* vet_bns.py:156-175
ScorePhot ==
    /\ ~result.called
    /\ LET scored == _score_phot(args)
       IN  /\ scoreFactors' =
                 StoreOrDelete(
                   StoreOrDelete(
                     StoreOrDelete(scoreFactors, event, "phot_peak_lum", scored.lum),
                     event, "phot_peak_time", scored.max_time),
                   event, "phot_decay_rate", scored.decay_rate)
           /\ result' = [called |-> TRUE, phot_score |-> scored.phot_score]
    /\ UNCHANGED <<targetExtras, photometry, pc, mode, event, skymap_score, df,
                   host_df, hosts_before, exc, stages, written, locVars,
                   lightcurve, args>>

NextScore == ScorePhot

SpecScore == InitScore /\ [][NextScore]_vars

\* ------------------------------------------------------------ properties
HostGalaxies == TargetExtrasOf(targetExtras, target_id, "Host Galaxies")

\* the rows of the ScoreFactor table other than the skymap_score rows
OtherFactors(table) ==
    [r \in {x \in Rows(table) : x.key # "skymap_score"} |-> table[r]]

SkymapRejected == mode = "vet_bns" /\ DecLT(skymap_score, SKYMAP_SCORE_MIN)

\* C1: a vet_bns run whose skymap score is below 1e-2 ends right after writing
\* the skymap_score factor: skymap_check is the only stage it executes, and
\* the step that writes the factor leaves every other ScoreFactor row and
\* every TargetExtra row (the host list among them) as it was.
C1_SkymapRejectEndsRun ==
    /\ [](SkymapRejected => pc = "done" /\ stages = <<"skymap_check">>)
    /\ [][(pc = "skymap_check" /\ DecLT(skymap_score', SKYMAP_SCORE_MIN))
             => /\ OtherFactors(scoreFactors') = OtherFactors(scoreFactors)
                /\ targetExtras' = targetExtras]_vars

\* a rejected run of a candidate that an earlier run scored against its hosts
C1_Witness ==
    /\ SkymapRejected
    /\ pc = "done"
    /\ HostGalaxies # {}
    /\ \E r \in Rows(scoreFactors) : r.key = "host_distance_score"

\* C2: the ScoreFactor table holds at most one row per (event_candidate, key),
\* and the row of a key holds the value written last for it.
C2_OneFactorPerKey ==
    /\ \A r \in Rows(scoreFactors) : scoreFactors[r] = 1
    /\ \A ev \in Events, key \in ScoreKeys :
          Cardinality(ScoreFactorsOf(scoreFactors, ev, key)) <= 1
    /\ \A ev \in Events : \A f \in written[ev] :
          [event_candidate |-> ev, key |-> f.key, value |-> f.value]
              \in Rows(scoreFactors)

\* a later run rejected the candidate: its skymap_score replaced the passing
\* score of the run that wrote the host_distance_score still stored, and the
\* target's other candidate has a skymap_score of its own
C2_Witness ==
    \E ev \in Events :
       /\ \E f \in written[ev] :
             f.key = "skymap_score" /\ f.latest /\ DecLT(f.value, SKYMAP_SCORE_MIN)
       /\ \E g \in written[ev] : g.key = "host_distance_score" /\ ~g.latest
       /\ \E other \in Events \ {ev} :
             \E h \in written[other] : h.key = "skymap_score"


\* the stages of the running call that have been executed
Executed(stage) == \E i \in DOMAIN stages : stages[i] = stage
LastStage == IF stages = << >> THEN None ELSE stages[Len(stages)]

\* host_association has returned in the running call
HostAssociationReturned ==
    \/ Executed("host_association") /\ exc = None
    \/ Executed("host_distance_scoring")

\* C3: every host row carries the chance-coincidence value of its own offset
\* (as r) and its own default magnitude (as m).
C3_PccOfOffsetAndMag ==
    \A i \in DOMAIN df : df[i].pcc = pcc(df[i].offset, df[i].default_mag)

Count(seq, row) == Cardinality({i \in DOMAIN seq : seq[i] = row})

StoredListIs(hosts) ==
    \E r \in HostGalaxies :
       /\ HostGalaxies = {r}
       /\ targetExtras[r] = 1
       /\ Len(r.value) = Len(hosts)
       /\ \A i \in DOMAIN hosts :
             /\ r.value[i].ID = hosts[i].name
             /\ r.value[i].PCC = hosts[i].pcc
             /\ r.value[i].Offset = hosts[i].offset
             /\ r.value[i].Mags = hosts[i].default_mag
             /\ r.value[i].Source = hosts[i].catalog

C6_EmptyListNoRaise ==
    (LastStage = "host_association" /\ Len(host_df) = 0)
        => exc = None /\ HostGalaxies = hosts_before

\* C7 as stated: after a completed run that reached host association the
\* stored list is that run's list, and nothing is stored when it found none.
C7_StoredIsLatestList ==
    (pc = "done" /\ Executed("host_association"))
        => IF Len(host_df) > 0 THEN StoredListIs(host_df) ELSE HostGalaxies = {}

\* C7 amended: after a completed run that reached host association the
\* stored list is that run's list when it found a host, and is the entry
\* stored before the run when it found none.
C7_StoredIsLatestNonEmptyList ==
    (pc = "done" /\ Executed("host_association"))
        => IF Len(host_df) > 0 THEN StoredListIs(host_df)
           ELSE HostGalaxies = hosts_before

\* a completed run found no host and the earlier list is still stored
C7_Witness ==
    /\ pc = "done"
    /\ Executed("host_association")
    /\ Len(host_df) = 0
    /\ HostGalaxies # {}

\* the product of a set of written factors, as the score defines it
RECURSIVE ScoreOf(_)
ScoreOf(factors) ==
    IF factors = {} THEN One
    ELSE LET f == CHOOSE x \in factors : TRUE
         IN  DecMul(IF f.key \in val_not_score_keys
                    THEN (IF OutOfRange(f.key, f.value) THEN PHOT_SCORE_MIN ELSE One)
                    ELSE f.value,
                    ScoreOf(factors \ {f}))

DisplayedScore(ev) == get_event_candidate_scores(scoreFactors, ev, ScoreKeys)

\* C8: after a vet_bns run the displayed score of the candidate is the
\* product of the factors that run wrote; a factor only an earlier run wrote
\* counts as 1.
C8_ScoreOfLatestRun ==
    (pc = "done" /\ mode = "vet_bns")
        => DisplayedScore(event) = ScoreOf({f \in written[event] : f.latest})

PointSourceMatch ==
    \E r \in TargetExtrasOf(targetExtras, target_id, "ps_score") : r.value = 0

\* C9: in a vet_bns run that passed the skymap check, once the point-source
\* check has a match none of host association, host-distance scoring,
\* photometry scoring and the predetection check is executed.
C9_PointSourceStopsRun ==
    (mode = "vet_bns" /\ Executed("point_source_check") /\ PointSourceMatch)
        => \A stage \in {"host_association", "host_distance_scoring",
                         "photometry_scoring", "predetection_check"} :
              ~Executed(stage)

Selected == localization # NoLocalization
LocalizationSet == {all_localizations[i] : i \in DOMAIN all_localizations}

\* the latest localization issued at or before the cutoff
IsLatestBefore(loc, cutoff) ==
    /\ loc \in LocalizationSet
    /\ loc.date <= cutoff
    /\ \A other \in LocalizationSet : other.date <= cutoff => other.date <= loc.date

\* C10: for every non-empty set of localizations and every cutoff,
\* the returned localization is the latest one issued at or before the cutoff.
C10_LatestBeforeCutoff == Selected => IsLatestBefore(localization, max_time)

\* the fit has been run on the light curve
Fitted == result.called
PlConverged == curve_fit(pl_nparams, lightcurve.n, lightcurve.pl) = "converged"
BplConverged ==
    /\ BplAttempted(lightcurve.n)
    /\ curve_fit(bpl_nparams, lightcurve.n, lightcurve.bpl) = "converged"

\* C11: with fewer than 7 points the broken power law is not fitted, and a
\* model that is returned is the single power law with its slope as decay rate.
C11_FewPointsSinglePowerLaw ==
    (Fitted /\ lightcurve.n < 7)
        => /\ ~result.bpl_attempted
           /\ result.raised = None
                 => /\ result.model = "_powerlaw"
                    /\ result.best_fit_params = pl_popt
                    /\ result.decay_rate = pl_popt[1]

\* six points on which a broken power law would converge and have the lower AIC
C11_Witness ==
    /\ Fitted
    /\ lightcurve.n = 6
    /\ lightcurve.bpl = "converged"
    /\ ~lightcurve.pl_better
    /\ result.raised = None
    /\ result.model = "_powerlaw"

\* C12: when exactly one of the two fits converged, the call returns that
\* model with its parameters, time of maximum and decay rate, and raises nothing.
C12_OnlyConvergedModelChosen ==
    (Fitted /\ lightcurve.n >= 2 /\ PlConverged # BplConverged)
        => /\ result.raised = None
           /\ PlConverged
                 => result = Returned("_powerlaw", pl_popt, pl_popt[1],
                                      result.bpl_attempted)
           /\ BplConverged
                 => result = Returned("_broken_powerlaw", bpl_popt, -bpl_popt[1],
                                      result.bpl_attempted)

\* neither model converges on the target's light curve
BothFitsFail ==
    /\ lightcurve.n >= pl_nparams
    /\ curve_fit(pl_nparams, lightcurve.n, lightcurve.pl) # "converged"
    /\ ~BplConverged

NoFactor(key) == ScoreFactorsOf(scoreFactors, event, key) = {}

\* C13: in a vet_bns run on a target with detections that neither model fits,
\* photometry scoring raises nothing, leaves no phot_peak_time and no
\* phot_decay_rate factor, and hands over to the predetection check.
C13_BothFitsFailRunGoesOn ==
    (mode = "vet_bns" /\ photometry = "detections" /\ BothFitsFail
        /\ Executed("photometry_scoring"))
        => /\ exc = None
           /\ NoFactor("phot_peak_time")
           /\ NoFactor("phot_decay_rate")
           /\ LastStage = "photometry_scoring" => pc = "predetection_check"

\* the target has photometry before the event, on too few epochs for a window
FewPreDiscoveryPoints ==
    /\ photometry # "none"
    /\ lightcurve.pre \in 1..(2 * predet_window_size)

\* C18: a vet_bns run on a target with at most 2*window_size points before
\* the event raises nothing and ends with no predetection_score factor.
C18_FewPredetectionsNoScore ==
    (mode = "vet_bns" /\ FewPreDiscoveryPoints /\ Executed("photometry_scoring"))
        => /\ exc = None
           /\ LastStage = "photometry_scoring" => pc = "predetection_check"
           /\ pc = "done" => NoFactor("predetection_score")

\* C14: whatever the TNS query ends with, a failure included, the stage that
\* makes it raises nothing and the run goes on to the point-source check.
C14_TnsFailureAbsorbed ==
    LastStage = "find_public_phot" => exc = None /\ pc = "point_source_check"

\* the part of a name that precedes its first '.', '-' or space
BeforeFirstDelimiter(name) ==
    LET at == {i \in DOMAIN name : name[i] \in {".", "-", " "}}
    IN  IF at = {} THEN name
        ELSE [i \in 1..((CHOOSE i \in at : \A j \in at : i <= j) - 1) |-> name[i]]

\* C16 as stated: the output has one name per input name, in the same order,
\* each the part of the input name before its first delimiter.
C16_PartBeforeFirstDelimiter ==
    result.called
        => /\ Len(result.value) = Len(args)
           /\ \A i \in DOMAIN args : result.value[i] = BeforeFirstDelimiter(args[i])

\* C16 amended: each output name is the part of the input name before its
\* first delimiter, without the whitespace at its ends.
C16_StrippedPartBeforeFirstDelimiter ==
    result.called
        => /\ Len(result.value) = Len(args)
           /\ \A i \in DOMAIN args :
                 result.value[i] = strip(BeforeFirstDelimiter(args[i]))

\* a name cut at a delimiter next to a name that only loses its whitespace
C16_Witness ==
    /\ result.called
    /\ args = << <<"g", " ">>, <<"\t", "g">> >>
    /\ result.value = << <<"g">>, <<"g">> >>

\* a record with a filter and a magnitude or a limit
Complete(p) == p.has_filter /\ (p.has_magnitude \/ p.has_limit)

RECURSIVE CompleteOnes(_)
CompleteOnes(phot) ==
    IF phot = << >> THEN << >>
    ELSE IF Complete(Head(phot)) THEN <<Head(phot)>> \o CompleteOnes(Tail(phot))
    ELSE CompleteOnes(Tail(phot))

\* the row is the row of the record
RowOf(row, p) ==
    /\ row.telescope = p.source_name
    /\ row.mjd = p.mjd
    /\ row.upperlimit = ~p.has_magnitude
    /\ row.mag = IF p.has_magnitude THEN p.magnitude ELSE p.limit

\* C15: _get_phot raises nothing and returns one row per record that has a
\* filter and a magnitude or a limit, in order; the other records are dropped.
C15_OneRowPerCompleteRecord ==
    result.called
        => /\ result.raised = None
           /\ Len(result.rows) = Len(CompleteOnes(args))
           /\ \A i \in DOMAIN result.rows : RowOf(result.rows[i], CompleteOnes(args)[i])

\* the epochs whose time is the k-th smallest, k from lo through hi
EpochsRanked(lo, hi) ==
    {e \in DOMAIN args.mjd :
        Cardinality({j \in DOMAIN args.mjd : args.mjd[j] < args.mjd[e]}) + 1
            \in lo..hi}

\* C17: for n epochs at distinct times, n > 2*window_size, the call returns
\* for each interior position i the number of detections and the number of
\* epochs among the epochs i-window_size through i+window_size, both included.
C17_WindowIncludesBothBounds ==
    (result.called /\ Len(args.mjd) > 2 * args.window_size)
        => LET w == args.window_size
               interior == (w + 1)..(Len(args.mjd) - w)
               dets == [k \in 1..Cardinality(interior) |->
                          Cardinality({e \in EpochsRanked(k, k + 2 * w) :
                              IsDetection(args.magerr[e], args.det_snr_thresh)})]
               obs == [k \in 1..Cardinality(interior) |-> 2 * w + 1]
           IN  result.value = <<dets, obs>>

\* C19: once a vet_bns run has got an empty list from host association and
\* has passed the host-distance step, the candidate has no host_distance_score
\* factor, and photometry scoring is the next stage or has been executed.
C19_NoHostsNoDistanceScore ==
    (mode = "vet_bns" /\ Executed("host_distance_scoring") /\ Len(host_df) = 0)
        => /\ NoFactor("host_distance_score")
           /\ pc = "photometry_scoring" \/ Executed("photometry_scoring")

\* a run that finds no host on a target for which an earlier run stored hosts
C19_Witness ==
    /\ mode = "vet_bns"
    /\ LastStage = "host_distance_scoring"
    /\ Len(host_df) = 0
    /\ hosts_before # {}
    /\ NoFactor("host_distance_score")
    /\ pc = "photometry_scoring"

\* C20: GLADE+ and GWGC both supply the luminosity distance of their rows, so
\* the cleaning of their rows removes no row for its redshift: what is left
\* are the rows that have a magnitude and a distance.
C20_DirectDistanceRowsKeepLowZ ==
    result.called
        => result.value = SelectSeq(args.frame, LAMBDA row :
                              row.default_mag # NaN /\ row.lumdist # NaN)

\* the most polls a call makes
ZtfPollBound == (args.max_wait_time \div args.dt_wait_time) + 1

\* C21: a ZTF query that waits for its results makes at most
\* floor(max_wait_time / dt_wait_time) + 1 polls, makes no poll after the one
\* that found the e-mail, and returns.
C21_ZtfPollingTerminates ==
    /\ [](result.polls <= ZtfPollBound)
    /\ [][result.found => result'.polls = result.polls]_vars
    /\ <>result.returned

\* the e-mail never arrives and the call gives up at the bound
C21_Witness ==
    /\ args.wait_for_results
    /\ args.arrives_at = 0
    /\ args.max_wait_time = 5
    /\ args.dt_wait_time = 2
    /\ result.returned
    /\ ~result.found
    /\ result.polls = 3

\* the host's distance distribution is the event's
SameDistribution ==
    /\ args.lumdist = args.dist
    /\ args.lumdist_neg_err = args.dist_err
    /\ args.lumdist_pos_err = args.dist_err

\* C22: dist_norm_joint_prob is a number between 0 and 1, and it is 1 (to the
\* precision of the arithmetic, one hundredth) when the host's distribution is
\* the event's, zero spread included.
C22_OverlapInUnitInterval ==
    result.called
        => /\ result.dist_norm_joint_prob # NaN
           /\ result.dist_norm_joint_prob \in 0..1010
           /\ SameDistribution => result.dist_norm_joint_prob >= 990

\* C23: when both runs have saved, the target has exactly one
\* 'Host Galaxies' entry and it holds the list of the run that wrote last.
C23_OneEntryOfLastWriter ==
    (\A run \in Runs : result.at[run] = "done")
        => StoredListIs(args[result.last])

\* C24: for a target with ATLAS photometry and a TNS query that returned,
\* a latest point older than forced_phot_tol days and than 3 days gets a query
\* of the days since that point, at most days_ago_max; a latest point within
\* forced_phot_tol days gets none.
C24_AtlasQuerySinceLatestPoint ==
    (result.called /\ args.has_atlas /\ result.raised = None)
        => /\ (args.age > 2 * args.forced_phot_tol /\ args.age > 2 * 3)
                 => /\ result.enqueued
                    /\ result.days_ago
                          \in {Min(args.days_ago_max, args.age \div 2),
                               Min(args.days_ago_max, (args.age + 1) \div 2)}
           /\ args.age <= 2 * args.forced_phot_tol => ~result.enqueued

\* C25: the time one _post_to_tns call has spent sleeping never exceeds
\* timelimit.
C25_TnsSleepWithinTimelimit == result.slept <= tns_timelimit

\* C26: every ATLAS query comes to an end: it returns, raises or exits,
\* whatever the service does.
C26_AtlasQueryEnds == <>(result.at \in {"returned", "raised", "exited"})

\* C27: when the minor-planet stage of a run has just been executed for a target
\* without detection photometry, nothing was raised, a minor-planet result
\* (the absence of a match) is stored and the run is about to associate hosts.
C27_NoDetectionsSkipsMinorPlanets ==
    (LastStage = "minor_planet_check" /\ photometry # "detections")
        => /\ exc = None
           /\ pc = "host_association"
           /\ TargetExtrasOf(targetExtras, target_id, "mpc_match_name") # {}

\* C28: once a run has scored the photometry and stored its values, the
\* photometric sub-score computed for display from the stored phot_peak_lum,
\* phot_peak_time and phot_decay_rate is the phot_score of that run.
C28_DisplayedPhotScoreIsRunPhotScore ==
    result.called
        => get_event_candidate_scores(scoreFactors, event, val_not_score_keys)
              = result.phot_score

\* a run that stored the three values, one of them outside its range
C28_Witness ==
    /\ result.called
    /\ \A key \in val_not_score_keys : ScoreFactorsOf(scoreFactors, event, key) # {}
    /\ result.phot_score = PHOT_SCORE_MIN

\* C29: the localization a vet_bns run scores against is the latest one of the
\* event issued at or before the time the run started.
C29_RunUsesLatestAtStart ==
    result.called => IsLatestBefore(localization, result.now)

\* the requests whose log file is in the directory
Pending(logfiles) == {logfiles[i].id : i \in DOMAIN logfiles}

\* the requests whose e-mail has arrived with files of a known target
Ingestible(logfiles) ==
    {logfiles[i].id : i \in {j \in DOMAIN logfiles :
                               logfiles[j].arrived /\ logfiles[j].kind = "ok"}}

\* C30: a run of check_for_new_data ingests every pending request whose e-mail
\* has arrived with files of a known target and removes its log, whatever the
\* other pending requests are.
C30_ArrivedRequestsIngestedByNextRun ==
    [][result'.runs # result.runs
          => /\ Ingestible(result.logfiles) \subseteq result'.ingested
             /\ Ingestible(result.logfiles) \cap Pending(result'.logfiles) = {}]_vars

====
